---- MODULE Spec2Model ----
(***************************************************************************)
(* modsynth/db-module: the generic repository (repository/repository.go)   *)
(* and the connection manager (package db), over the gorm client.          *)
(*                                                                         *)
(* The table is the TestUser table of repository_test.go: an integer       *)
(* auto-increment primary key, a uniquely indexed email and a free age     *)
(* column.  The gorm calls the wrappers make are modelled by what gorm     *)
(* does against the SQLite backend of the tests.                           *)
(***************************************************************************)
EXTENDS Integers, Sequences, FiniteSets, TLC

\* ------------------------------------------------------------------ bounds

\* Largest primary key the table hands out.
MaxId == 3

Ids == 1 .. MaxId
\* Values of the uniquely indexed column.
Emails == {"jane@example.com", "john@example.com", "alice@example.com"}
\* Ages of the fixtures of repository_test.go (25 and 30), 99 matching no row.
Ages == {25, 30}
NoAge == 99

\* ------------------------------------------------------------------ records

\* A TestUser: ID (0 = unset), Email (unique index), Age.
Rec(i, e, a) == [id |-> i, email |-> e, age |-> a]
ZeroRec == Rec(0, "", 0)
Users == {Rec(i, e, a) : i \in 0 .. MaxId, e \in Emails, a \in Ages}

\* Error values the wrappers hand back unchanged from the client.
Nil == "nil"
ErrRecordNotFound == "record not found"
ErrConstraint == "constraint failed"
ErrMissingWhereClause == "WHERE conditions required"
ErrInvalidTransaction == "invalid transaction"
ErrNotConnected == "database not connected"
ErrConfigNil == "config cannot be nil"
ErrConnect == "failed to connect to database"
ErrDBInstance == "failed to get database instance"
ErrClosed == "sql: database is closed"
ErrPing == "database ping failed"
ErrNoOpenConns == "no open connections"
Panic == "panic: nil pointer dereference"

\* ------------------------------------------------------------------ Go int

\* Go's int on the 64-bit targets: (page - 1) * pageSize wraps modulo 2^IntBits.
IntBits == 64
\* An int is kept as hi * 2^60 + lo with 0 <= hi < 2^HiBits and lo small, which
\* is exact for the products below as long as the lo parts stay under 2^60.
HiBits == IntBits - 60
HiMod == 2 ^ HiBits
GoInt(h, l) == [hi |-> h, lo |-> l]
IntMul(x, y) == GoInt((x.hi * y.lo + x.lo * y.hi) % HiMod, x.lo * y.lo)
IntPred(x) == GoInt(x.hi, x.lo - 1)
\* The sign bit is the top bit of hi.
IntNeg(x) == x.hi >= HiMod \div 2
IntPos(x) == ~IntNeg(x) /\ (x.hi > 0 \/ x.lo > 0)

\* ------------------------------------------------------------------ the client

\* Result of one client call: the error, the table and the auto-increment
\* high-water mark after it, and the entity as the call leaves it.
Out(err, t, s, ent) == [err |-> err, tbl |-> t, seq |-> s, ent |-> ent]

MaxOf(a, b) == IF a >= b THEN a ELSE b
MinOf(a, b) == IF a <= b THEN a ELSE b

HasId(t, i) == \E r \in t : r.id = i
HasEmail(t, e) == \E r \in t : r.email = e
RowOf(t, i) == CHOOSE r \in t : r.id = i

\* Rows in the order a query without ORDER BY returns them (rowid order).
RECURSIVE Ordered(_)
Ordered(t) ==
    IF t = {} THEN <<>>
    ELSE LET first == CHOOSE r \in t : \A q \in t : r.id <= q.id
         IN  <<first>> \o Ordered(t \ {first})

\* db.Create(entity): INSERT; a zero primary key is generated past every key
\* handed out so far and written back onto the entity; a taken primary key or
\* a taken email is rejected by the backend and nothing is written.
GormCreate(t, s, e) ==
    LET i == IF e.id = 0 THEN s + 1 ELSE e.id
        row == [e EXCEPT !.id = i]
    IN  IF HasId(t, i) \/ HasEmail(t, e.email)
        THEN Out(ErrConstraint, t, s, e)
        ELSE Out(Nil, t \cup {row}, MaxOf(s, i), row)

\* db.First(dest, id): WHERE pk = id, and also pk = dest's primary key when
\* dest carries a non-zero one; first row in primary-key order, scanned into
\* dest; ErrRecordNotFound when no row matches.
GormFirst(t, dest, i) ==
    LET m == {r \in t : r.id = i /\ (dest.id # 0 => r.id = dest.id)}
    IN  IF m = {} THEN Out(ErrRecordNotFound, t, 0, dest)
        ELSE Out(Nil, t, 0, Ordered(m)[1])

\* db.Save(entity): a zero primary key is a Create; otherwise UPDATE of every
\* column WHERE pk, and when that matches no row INSERT .. ON CONFLICT (pk) DO
\* UPDATE.  Either statement fails on a taken email, writing nothing.
GormSave(t, s, e) ==
    IF e.id = 0 THEN GormCreate(t, s, e)
    ELSE IF \E r \in t : r.id # e.id /\ r.email = e.email
         THEN Out(ErrConstraint, t, s, e)
         ELSE Out(Nil, {r \in t : r.id # e.id} \cup {e}, MaxOf(s, e.id), e)

\* db.Delete(value, conds...): DELETE WHERE pk = value's non-zero primary key
\* AND pk = the inline condition; with neither, gorm refuses the statement.
GormDelete(t, s, value, hasCond, i) ==
    IF ~hasCond /\ value.id = 0 THEN Out(ErrMissingWhereClause, t, s, value)
    ELSE Out(Nil,
             {r \in t : ~((hasCond => r.id = i) /\ (value.id # 0 => r.id = value.id))},
             s, value)

\* db.Model(&entity).Count(&count): SELECT count(*).
GormCount(t) == Cardinality(t)

\* A filter "age = ?" with its positional argument.
Matches(r, q) == r.age = q

\* db.Find(&entities): every row.
GormFind(t) == Ordered(t)

\* db.Where(query, args...).Find(&entities).
GormWhereFind(t, q) == Ordered({r \in t : Matches(r, q)})

\* db.Offset(offset).Limit(limit).Find(&entities): the OFFSET clause is
\* written only for offset > 0, the LIMIT clause for limit >= 0.
Skip(offset, n) ==
    IF ~IntPos(offset) THEN 0
    ELSE IF offset.hi > 0 THEN n ELSE MinOf(offset.lo, n)
Take(limit, n) ==
    IF IntNeg(limit) THEN n
    ELSE IF limit.hi > 0 THEN n ELSE MinOf(limit.lo, n)

GormOffsetLimitFind(t, offset, limit) ==
    LET all == Ordered(t)
        k == Skip(offset, Len(all))
        n == Take(limit, Len(all) - k)
    IN  SubSeq(all, k + 1, k + n)

\* ------------------------------------------------------------------ transactions

\* The unit of work handed to Transaction: writes through the transaction-scoped
\* handle, in order, returning the first write's error as the tests' units do,
\* and otherwise its own verdict.
TxCreate(e) == [k |-> "create", e |-> Rec(0, e, 25), id |-> 0]
TxDelete(i) == [k |-> "delete", e |-> ZeroRec, id |-> i]
TxCreates == {TxCreate(e) : e \in Emails}
TxOps == TxCreates \cup {TxDelete(i) : i \in Ids}
TxVerdicts == {Nil, ErrInvalidTransaction}
Fn(ops, ret) == [ops |-> ops, ret |-> ret]
\* Units of one write, and of a create followed by a second write.
ShortFns == {Fn(<<a>>, v) : a \in TxOps, v \in TxVerdicts}
\* Units that create one given user.
OneFns == {Fn(<<TxCreate("jane@example.com")>>, v) : v \in TxVerdicts}
Fns == ShortFns
           \cup {Fn(<<a, b>>, v) : a \in TxCreates, b \in TxOps, v \in TxVerdicts}

TxWrite(t, s, w) ==
    IF w.k = "create" THEN GormCreate(t, s, w.e)
    ELSE GormDelete(t, s, ZeroRec, TRUE, w.id)

\* fn(tx): the state the handle sees after the unit of work, and what it returns.
RECURSIVE RunFn(_, _, _, _)
RunFn(t, s, ops, ret) ==
    IF ops = <<>> THEN Out(ret, t, s, ZeroRec)
    ELSE LET o == TxWrite(t, s, Head(ops))
         IN  IF o.err # Nil THEN Out(o.err, o.tbl, o.seq, ZeroRec)
             ELSE RunFn(o.tbl, o.seq, Tail(ops), ret)

\* db.Transaction(fn): begin, fn(tx), commit when fn returns nil, otherwise
\* roll back and return fn's error.
GormTransaction(t, s, fn) ==
    LET o == RunFn(t, s, fn.ops, fn.ret)
    IN  IF o.err = Nil THEN Out(Nil, o.tbl, o.seq, ZeroRec)
        ELSE Out(o.err, t, s, ZeroRec)

\* fn(db) on the plain handle: every write lands as it is made.
GormNoTransaction(t, s, fn) == RunFn(t, s, fn.ops, fn.ret)

\* ------------------------------------------------------------------ Repository[T]

\* What a query hands back: the error, the rows and the total.
Got(err, rows, total) == [err |-> err, rows |-> rows, total |-> total]

\* Create: r.db.WithContext(ctx).Create(entity).Error
RepoCreateDropsError(t, s, e) == [GormCreate(t, s, e) EXCEPT !.err = Nil]

RepoCreate(t, s, e) == GormCreate(t, s, e)

\* FindByID: r.db.WithContext(ctx).First(entity, id).Error
RepoFindByIDWithFind(t, i, dest) == [GormFirst(t, dest, i) EXCEPT !.err = Nil]

RepoFindByID(t, i, dest) == GormFirst(t, dest, i)

\* FindAll: r.db.WithContext(ctx).Find(&entities)
RepoFindAll(t) == Got(Nil, GormFind(t), 0)

\* Update: r.db.WithContext(ctx).Save(entity).Error
RepoUpdate(t, s, e) == GormSave(t, s, e)

\* Delete: r.db.WithContext(ctx).Delete(entity).Error
RepoDelete(t, s, e) == GormDelete(t, s, e, FALSE, 0)

\* DeleteByID: var entity T; r.db.WithContext(ctx).Delete(&entity, id).Error
RepoDeleteByID(t, s, i) == GormDelete(t, s, ZeroRec, TRUE, i)

\* Count: r.db.WithContext(ctx).Model(&entity).Count(&count)
RepoCountUnset(t) == Got(Nil, <<>>, 0)

RepoCount(t) == Got(Nil, <<>>, GormCount(t))

\* FindWhere: r.db.WithContext(ctx).Where(query, args...).Find(&entities)
RepoFindWhereNoFilter(t, q) == Got(Nil, GormFind(t), 0)

RepoFindWhere(t, q) == Got(Nil, GormWhereFind(t, q), 0)

\* FirstWhere: r.db.WithContext(ctx).Where(query, args...).First(entity)
RepoFirstWhere(t, dest, q) ==
    LET m == {r \in t : Matches(r, q) /\ (dest.id # 0 => r.id = dest.id)}
    IN  IF m = {} THEN Out(ErrRecordNotFound, t, 0, dest)
        ELSE Out(Nil, t, 0, Ordered(m)[1])

\* Paginate: the count, then offset := (page - 1) * pageSize and
\* Offset(offset).Limit(pageSize).Find(&entities).
RepoPaginate(t, page, pageSize) ==
    LET total == GormCount(t)
        offset == IntMul(IntPred(page), pageSize)
    IN  Got(Nil, GormOffsetLimitFind(t, offset, pageSize), total)

\* Transaction: r.db.WithContext(ctx).Transaction(fn)
RepoTransactionNoTx(t, s, fn) == GormNoTransaction(t, s, fn)

RepoTransaction(t, s, fn) == GormTransaction(t, s, fn)

\* ------------------------------------------------------------------ package db

\* Pool defaults New fills into zero-valued fields; durations in minutes.
DefaultMaxOpenConns == 100
DefaultMaxIdleConns == 10
DefaultConnMaxLifetime == 60
DefaultConnMaxIdleTime == 10

\* A Config (its pool fields), or the nil *Config.
Config(o, i, l, t) ==
    [MaxOpenConns |-> o, MaxIdleConns |-> i, ConnMaxLifetime |-> l, ConnMaxIdleTime |-> t]
NilConfig == Config(-9, -9, -9, -9)
Configs == {Config(o, i, l, t) : o \in {0, 25, -1}, i \in {0, 5}, l \in {0, 30}, t \in {0, 5}}

\* Dialectors: one that opens, one whose Open fails, one whose connection
\* pool is not a *sql.DB, so that gormDB.DB() fails.
Dialectors == {"sqlite", "unreachable", "no sql.DB"}

\* New's "Set defaults" block.
WithDefaultsAlways(c) ==
    Config(DefaultMaxOpenConns, DefaultMaxIdleConns,
           DefaultConnMaxLifetime, DefaultConnMaxIdleTime)

WithDefaults(c) ==
    Config(IF c.MaxOpenConns = 0 THEN DefaultMaxOpenConns ELSE c.MaxOpenConns,
           IF c.MaxIdleConns = 0 THEN DefaultMaxIdleConns ELSE c.MaxIdleConns,
           IF c.ConnMaxLifetime = 0 THEN DefaultConnMaxLifetime ELSE c.ConnMaxLifetime,
           IF c.ConnMaxIdleTime = 0 THEN DefaultConnMaxIdleTime ELSE c.ConnMaxIdleTime)

\* The limits handed to a sql.DB's four setters, and how many times.
NoPool == [limits |-> NilConfig, times |-> 0]
\* New's "Set connection pool settings" block on a fresh sql.DB.
SetPool(c) == [limits |-> c, times |-> 1]

\* New(config, dialector): the error, the *DB returned, the caller's Config
\* after the call and the pool of the sql.DB opened.
Made(err, m, c, p) == [err |-> err, mgr |-> m, cfg |-> c, pool |-> p]
DBNew(c, d) ==
    IF c = NilConfig THEN Made(ErrConfigNil, "nil", c, NoPool)
    ELSE LET f == WithDefaults(c)
         IN  IF d = "unreachable" THEN Made(ErrConnect, "nil", f, NoPool)
             ELSE IF d = "no sql.DB" THEN Made(ErrDBInstance, "nil", f, NoPool)
             ELSE Made(Nil, "open", f, SetPool(f))

\* Close, Ping, HealthCheck, Stats: db.DB == nil is read through the receiver,
\* so a nil *DB panics; a *DB without a handle returns ErrNotConnected.
DBClose(m) ==
    IF m = "nil" THEN Panic
    ELSE IF m = "zero" THEN ErrNotConnected
    ELSE Nil

DBPing(m, up) ==
    IF m = "nil" THEN Panic
    ELSE IF m = "zero" THEN ErrNotConnected
    ELSE IF m = "closed" THEN ErrClosed
    ELSE IF up THEN Nil ELSE ErrPing

DBHealthCheck(m, up, open) ==
    IF m = "nil" THEN Panic
    ELSE IF m = "zero" THEN ErrNotConnected
    ELSE IF m = "closed" \/ ~up THEN ErrPing
    ELSE IF open = 0 THEN ErrNoOpenConns
    ELSE Nil

\* The counters map Stats returns, or no map.
NoMap == [max_open_connections |-> -1, open_connections |-> -1]
DBStats(m, p, open) ==
    IF m = "nil" THEN [err |-> Panic, map |-> NoMap]
    ELSE IF m = "zero" THEN [err |-> ErrNotConnected, map |-> NoMap]
    ELSE [err |-> Nil,
          map |-> [max_open_connections |-> MaxOf(p.limits.MaxOpenConns, 0),
                   open_connections |-> IF m = "closed" THEN 0 ELSE open]]

\* Transaction: db.DB.Transaction(fn), with no check of the handle.
DBTransaction(m, t, s, fn) ==
    IF m \in {"nil", "zero"} THEN Out(Panic, t, s, ZeroRec)
    ELSE IF m = "closed" THEN Out(ErrClosed, t, s, ZeroRec)
    ELSE GormTransaction(t, s, fn)

\* WithContext and AutoMigrate: db.DB.WithContext(ctx), db.DB.AutoMigrate(models...).
DBWithContext(m) == IF m \in {"nil", "zero"} THEN Panic ELSE Nil
DBAutoMigrate(m) ==
    IF m \in {"nil", "zero"} THEN Panic
    ELSE IF m = "closed" THEN ErrClosed ELSE Nil

\* ------------------------------------------------------------------ state

VARIABLES
    tbl,      \* the rows of T's table
    seq,      \* the largest primary key the table ever held (sqlite_sequence)
    res,      \* the last call: its name, input, error and outputs
    tally,    \* history: successful Creates and rows deleted since the empty table
    mgr,      \* the caller's *DB: "nil", "zero" (no handle), "open", "closed"
    cfg,      \* the caller's Config, which New fills in
    pool      \* the limits set on the underlying sql.DB and how often

vars == <<tbl, seq, res, tally, mgr, cfg, pool>>
dbVars == <<mgr, cfg, pool>>

Res(op, arg, err, ent, rows, total) ==
    [op |-> op, arg |-> arg, err |-> err, ent |-> ent, rows |-> rows, total |-> total]

\* Keys handed out stay within the bound.
KeyFree(e) == e.id = 0 => seq < MaxId

\* Output locations a caller passes: a fresh record, or one loaded earlier.
Dests == {ZeroRec} \cup tbl
\* Entities a caller deletes: a row, or a record carrying only a key.
Victims == tbl \cup {Rec(i, "", 0) : i \in 0 .. MaxId}

\* page and pageSize arguments: small ones, and 2^62 + 1.
HugePage == GoInt(HiMod \div 4, 1)
Pages == {GoInt(0, p) : p \in 1 .. MaxId + 1} \cup {HugePage}
PageSizes == {GoInt(0, 1), GoInt(0, 2)}

\* ------------------------------------------------------------------ calls

CreateCall(e) ==
    /\ KeyFree(e)
    /\ LET o == RepoCreate(tbl, seq, e)
       IN  /\ tbl' = o.tbl
           /\ seq' = o.seq
           /\ res' = Res("Create", e, o.err, o.ent, <<>>, 0)
    /\ UNCHANGED dbVars

UpdateCall(e) ==
    /\ KeyFree(e)
    /\ LET o == RepoUpdate(tbl, seq, e)
       IN  /\ tbl' = o.tbl
           /\ seq' = o.seq
           /\ res' = Res("Update", e, o.err, o.ent, <<>>, 0)
    /\ UNCHANGED dbVars

DeleteCall(e) ==
    /\ LET o == RepoDelete(tbl, seq, e)
       IN  /\ tbl' = o.tbl
           /\ seq' = o.seq
           /\ res' = Res("Delete", e, o.err, o.ent, <<>>, 0)
    /\ UNCHANGED dbVars

DeleteByIDCall(i) ==
    /\ LET o == RepoDeleteByID(tbl, seq, i)
       IN  /\ tbl' = o.tbl
           /\ seq' = o.seq
           /\ res' = Res("DeleteByID", i, o.err, ZeroRec, <<>>, 0)
    /\ UNCHANGED dbVars

CountCall ==
    /\ LET g == RepoCount(tbl)
       IN  res' = Res("Count", 0, g.err, ZeroRec, <<>>, g.total)
    /\ UNCHANGED <<tbl, seq, dbVars>>

\* ------------------------------------------------------------------ actions

Create(e) == CreateCall(e) /\ UNCHANGED tally

FindByID(i, dest) ==
    /\ LET o == RepoFindByID(tbl, i, dest)
       IN  res' = Res("FindByID", [id |-> i, dest |-> dest], o.err, o.ent, <<>>, 0)
    /\ UNCHANGED <<tbl, seq, tally, dbVars>>

FindAll ==
    /\ LET g == RepoFindAll(tbl)
       IN  res' = Res("FindAll", 0, g.err, ZeroRec, g.rows, 0)
    /\ UNCHANGED <<tbl, seq, tally, dbVars>>

Update(e) == UpdateCall(e) /\ UNCHANGED tally

Delete(e) == DeleteCall(e) /\ UNCHANGED tally

DeleteByID(i) == DeleteByIDCall(i) /\ UNCHANGED tally

Count == CountCall /\ UNCHANGED tally

FindWhere(q) ==
    /\ LET g == RepoFindWhere(tbl, q)
       IN  res' = Res("FindWhere", q, g.err, ZeroRec, g.rows, 0)
    /\ UNCHANGED <<tbl, seq, tally, dbVars>>

FirstWhere(dest, q) ==
    /\ LET o == RepoFirstWhere(tbl, dest, q)
       IN  res' = Res("FirstWhere", [q |-> q, dest |-> dest], o.err, o.ent, <<>>, 0)
    /\ UNCHANGED <<tbl, seq, tally, dbVars>>

Paginate(page, pageSize) ==
    /\ LET g == RepoPaginate(tbl, page, pageSize)
       IN  res' = Res("Paginate", [page |-> page, pageSize |-> pageSize],
                      g.err, ZeroRec, g.rows, g.total)
    /\ UNCHANGED <<tbl, seq, tally, dbVars>>

\* Creates a unit of work makes stay within the keys.
FnFree(fn) == seq + Cardinality({k \in DOMAIN fn.ops : fn.ops[k].k = "create"}) <= MaxId

Transaction(fn) ==
    /\ FnFree(fn)
    /\ LET o == RepoTransaction(tbl, seq, fn)
       IN  /\ tbl' = o.tbl
           /\ seq' = o.seq
           /\ res' = Res("Transaction", fn, o.err, ZeroRec, <<>>, 0)
    /\ UNCHANGED <<tally, dbVars>>

\* ------------------------------------------------------------------ DB actions

New(c, d) ==
    /\ LET n == DBNew(c, d)
       IN  /\ mgr' = n.mgr
           /\ cfg' = n.cfg
           /\ pool' = n.pool
           /\ res' = Res("New", [config |-> c, dialector |-> d], n.err, ZeroRec, <<>>, 0)
    /\ UNCHANGED <<tbl, seq, tally>>

Close ==
    /\ res' = Res("Close", mgr, DBClose(mgr), ZeroRec, <<>>, 0)
    /\ mgr' = IF mgr = "open" THEN "closed" ELSE mgr
    /\ UNCHANGED <<tbl, seq, tally, cfg, pool>>

Ping(up) ==
    /\ res' = Res("Ping", mgr, DBPing(mgr, up), ZeroRec, <<>>, 0)
    /\ UNCHANGED <<tbl, seq, tally, dbVars>>

HealthCheck(up, open) ==
    /\ res' = Res("HealthCheck", mgr, DBHealthCheck(mgr, up, open), ZeroRec, <<>>, 0)
    /\ UNCHANGED <<tbl, seq, tally, dbVars>>

Stats(open) ==
    /\ LET st == DBStats(mgr, pool, open)
       IN  res' = Res("Stats", mgr, st.err, st.map, <<>>, 0)
    /\ UNCHANGED <<tbl, seq, tally, dbVars>>

DBTransact(fn) ==
    /\ FnFree(fn)
    /\ LET o == DBTransaction(mgr, tbl, seq, fn)
       IN  /\ tbl' = o.tbl
           /\ seq' = o.seq
           /\ res' = Res("DB.Transaction", fn, o.err, ZeroRec, <<>>, 0)
    /\ UNCHANGED <<tally, dbVars>>

WithContext ==
    /\ res' = Res("WithContext", mgr, DBWithContext(mgr), ZeroRec, <<>>, 0)
    /\ UNCHANGED <<tbl, seq, tally, dbVars>>

AutoMigrate ==
    /\ res' = Res("AutoMigrate", mgr, DBAutoMigrate(mgr), ZeroRec, <<>>, 0)
    /\ UNCHANGED <<tbl, seq, tally, dbVars>>

InitRepo ==
    /\ tbl = {}
    /\ seq = 0
    /\ res = Res("none", 0, Nil, ZeroRec, <<>>, 0)
    /\ tally = [created |-> 0, deleted |-> 0]

Init ==
    /\ InitRepo
    /\ mgr = "open"
    /\ cfg = WithDefaults(Config(0, 0, 0, 0))
    /\ pool = SetPool(cfg)

Next ==
    \/ \E e \in Users : Create(e)
    \/ \E i \in 0 .. MaxId, dest \in Dests : FindByID(i, dest)
    \/ FindAll
    \/ \E e \in Users : Update(e)
    \/ \E e \in Victims : Delete(e)
    \/ \E i \in 0 .. MaxId : DeleteByID(i)
    \/ Count
    \/ \E q \in Ages \cup {NoAge} : FindWhere(q)
    \/ \E q \in Ages \cup {NoAge} : FirstWhere(ZeroRec, q)
    \/ \E page \in Pages, pageSize \in PageSizes : Paginate(page, pageSize)
    \/ \E fn \in Fns : Transaction(fn)
    \/ \E fn \in Fns : DBTransact(fn)

Spec == Init /\ [][Next]_vars

\* ------------------------------------------------------------------ counted history

\* The same calls with the history of Creates and deletions kept: tally counts
\* the successful Creates and the rows Delete and DeleteByID removed.
MaxCreates == 4

CreateCounted(e) ==
    /\ tally.created < MaxCreates
    /\ CreateCall(e)
    /\ tally' = [tally EXCEPT !.created = @ + (IF res'.err = Nil THEN 1 ELSE 0)]

DeleteCounted(e) ==
    /\ DeleteCall(e)
    /\ tally' = [tally EXCEPT !.deleted = @ + Cardinality(tbl \ tbl')]

DeleteByIDCounted(i) ==
    /\ DeleteByIDCall(i)
    /\ tally' = [tally EXCEPT !.deleted = @ + Cardinality(tbl \ tbl')]

NextCount ==
    \/ \E e \in Users : CreateCounted(e)
    \/ \E e \in Victims : DeleteCounted(e)
    \/ \E i \in 0 .. MaxId : DeleteByIDCounted(i)
    \/ Count

SpecCount == Init /\ [][NextCount]_vars

\* ------------------------------------------------------------------ the manager's life

\* The caller starts with no manager: a nil *DB, or a DB value without a handle.
InitDB ==
    /\ InitRepo
    /\ mgr \in {"nil", "zero"}
    /\ cfg = NilConfig
    /\ pool = NoPool

NextDB ==
    \/ \E c \in Configs \cup {NilConfig, cfg}, d \in Dialectors : New(c, d)
    \/ Close
    \/ \E up \in BOOLEAN : Ping(up)
    \/ \E up \in BOOLEAN, open \in {0, 1} : HealthCheck(up, open)
    \/ \E open \in {0, 1} : Stats(open)
    \/ \E fn \in OneFns : DBTransact(fn)
    \/ WithContext
    \/ AutoMigrate

SpecDB == InitDB /\ [][NextDB]_vars

\* ------------------------------------------------------------------ concurrent callers

\* One caller's calls interleaved with the writes of other callers on the same
\* table.  Paginate is two statements on the client, the count and the find,
\* with no transaction around them: between the two the caller's call is in
\* flight, res holding its arguments and the total it has read so far.

\* Paginate's first statement: Model(&entity).Count(&total).
PaginateTotal(t) == GormCount(t)

\* Paginate's second statement: offset := (page - 1) * pageSize and
\* Offset(offset).Limit(pageSize).Find(&entities).
PaginatePage(t, page, pageSize) ==
    GormOffsetLimitFind(t, IntMul(IntPred(page), pageSize), pageSize)

\* Pages whose offset stays far from the int range.
SmallPages == {GoInt(0, p) : p \in 1 .. MaxId}

\* Records another caller creates: no key set.
FreshUsers == {u \in Users : u.id = 0}

InFlight == res.op = "Paginate.Count"

PaginateCount(page, pageSize) ==
    /\ ~InFlight
    /\ res' = Res("Paginate.Count", [page |-> page, pageSize |-> pageSize],
                  Nil, ZeroRec, <<>>, PaginateTotal(tbl))
    /\ UNCHANGED <<tbl, seq, tally, dbVars>>

PaginateFind ==
    /\ InFlight
    /\ res' = Res("Paginate", res.arg, Nil, ZeroRec,
                  PaginatePage(tbl, res.arg.page, res.arg.pageSize), res.total)
    /\ UNCHANGED <<tbl, seq, tally, dbVars>>

\* Calls of the caller that are one statement each.
CountAlone == ~InFlight /\ Count
FindAllAlone == ~InFlight /\ FindAll

\* Another caller's Create and DeleteByID: the table changes, this caller's
\* call and result do not.
OtherCreate(e) ==
    /\ KeyFree(e)
    /\ LET o == RepoCreate(tbl, seq, e)
       IN  tbl' = o.tbl /\ seq' = o.seq
    /\ UNCHANGED <<res, tally, dbVars>>

OtherDeleteByID(i) ==
    /\ LET o == RepoDeleteByID(tbl, seq, i)
       IN  tbl' = o.tbl /\ seq' = o.seq
    /\ UNCHANGED <<res, tally, dbVars>>

NextConc ==
    \/ \E page \in SmallPages, pageSize \in PageSizes : PaginateCount(page, pageSize)
    \/ PaginateFind
    \/ CountAlone
    \/ FindAllAlone
    \/ \E e \in FreshUsers : OtherCreate(e)
    \/ \E i \in Ids : OtherDeleteByID(i)

SpecConc == Init /\ [][NextConc]_vars

\* ------------------------------------------------------------------ properties

Unique(t) == \A r \in t, q \in t : (r.id = q.id \/ r.email = q.email) => r = q
Elems(rows) == {rows[k] : k \in DOMAIN rows}

\* The key the k-th write of a unit gets, when it is a create, from the
\* high-water mark s the unit started at.
KeyOf(ops, k, s) == s + Cardinality({j \in 1 .. k : ops[j].k = "create"})
\* The writes of a unit that ran to its end are visible in t: a created row
\* is there unless a later write of the unit deleted its key, a deleted key
\* is gone, and rows the unit did not delete are kept.
Visible(ops, s, old, t) ==
    /\ \A k \in DOMAIN ops :
          IF ops[k].k = "create"
          THEN \/ [ops[k].e EXCEPT !.id = KeyOf(ops, k, s)] \in t
               \/ \E j \in DOMAIN ops :
                     j > k /\ ops[j].k = "delete" /\ ops[j].id = KeyOf(ops, k, s)
          ELSE ~HasId(t, ops[k].id)
    /\ \A r \in old :
          (\A k \in DOMAIN ops : ops[k].k = "delete" => ops[k].id # r.id) => r \in t

\* C1: Transaction is all-or-nothing.  Whenever Repository.Transaction or
\* DB.Transaction has run a unit of work: if the unit returned nil, Transaction
\* returns nil and every write of the unit is visible in the table; if the
\* unit returned an error, Transaction returns an error and the table (and so
\* Count) is what it was before the call.
C1_AllOrNothing ==
    [][(res'.op \in {"Transaction", "DB.Transaction"}) =>
         LET fn == res'.arg
             ret == RunFn(tbl, seq, fn.ops, fn.ret).err
         IN  IF ret = Nil
             THEN res'.err = Nil /\ Visible(fn.ops, seq, tbl, tbl')
             ELSE res'.err # Nil /\ tbl' = tbl /\ GormCount(tbl') = GormCount(tbl)]_vars

\* A unit whose create went through and which then returned an error was rolled back.
C1_Witness ==
    /\ res.op = "Transaction"
    /\ res.err = ErrInvalidTransaction
    /\ res.arg.ops[1].k = "create"
    /\ ~HasEmail(tbl, res.arg.ops[1].e.email)
    /\ tbl # {}

\* C2: Create/FindByID round trip.  After a successful Create of r, r carries
\* a non-zero primary key and FindByID(r.id), into whatever output record the
\* caller passes, succeeds and yields a record equal to r in all fields.
C2_RoundTrip ==
    (res.op = "Create" /\ res.err = Nil) =>
        /\ res.ent.id # 0
        /\ \A dest \in Dests :
              LET f == RepoFindByID(tbl, res.ent.id, dest)
              IN  f.err = Nil /\ f.ent = res.ent

\* C3: FindByID(id) fails with NotFound whenever no row has primary key id:
\* for a key never created, and for the key of a row that a successful Delete
\* or DeleteByID removed, whatever output record the caller passes.
C3_NotFound ==
    /\ (res.op = "FindByID" /\ ~HasId(tbl, res.arg.id)) => res.err = ErrRecordNotFound
    /\ (res.op = "Delete" /\ res.err = Nil) =>
          \A dest \in Dests : RepoFindByID(tbl, res.arg.id, dest).err = ErrRecordNotFound
    /\ (res.op = "DeleteByID" /\ res.err = Nil) =>
          \A dest \in Dests : RepoFindByID(tbl, res.arg, dest).err = ErrRecordNotFound

\* FindByID of a key that was handed out and whose row is gone.
C3_Witness ==
    /\ res.op = "FindByID"
    /\ res.arg.id \in 1 .. seq
    /\ ~HasId(tbl, res.arg.id)
    /\ res.err = ErrRecordNotFound

TrueSlice(all, page, pageSize) ==
    IF page.hi > 0 THEN <<>>
    ELSE SubSeq(all, (page.lo - 1) * pageSize.lo + 1, MinOf(page.lo * pageSize.lo, Len(all)))

\* C5: Paginate partitions the table.  For every page >= 1 and pageSize >= 1
\* Paginate returns no error, total = N and the rows at positions
\* (page-1)*pageSize up to min(page*pageSize, N) of the default order (none
\* past the end); pages with different numbers share no row.
C5_Paginate ==
    /\ (res.op = "Paginate") =>
          /\ res.err = Nil
          /\ res.total = Cardinality(tbl)
          /\ res.rows = TrueSlice(Ordered(tbl), res.arg.page, res.arg.pageSize)
    /\ \A p \in Pages, q \in Pages, n \in PageSizes :
          p # q => Elems(RepoPaginate(tbl, p, n).rows)
                       \cap Elems(RepoPaginate(tbl, q, n).rows) = {}

\* C6 as stated: a Create whose email is in the table fails and leaves the
\* table as it was, and a Create whose email is not in the table succeeds.
C6_FirstCreateSucceeds ==
    [][(res'.op = "Create") =>
         IF HasEmail(tbl, res'.arg.email)
         THEN res'.err # Nil /\ tbl' = tbl
         ELSE res'.err = Nil]_vars

\* C6, amended: no two rows ever share an email; a Create whose email is in
\* the table fails and leaves the table as it was; a Create whose email is not
\* in the table succeeds when its primary key is unset or not in the table.
C6_Unique ==
    /\ []Unique(tbl)
    /\ [][(res'.op = "Create") =>
            IF HasEmail(tbl, res'.arg.email)
            THEN res'.err # Nil /\ tbl' = tbl
            ELSE (res'.arg.id = 0 \/ ~HasId(tbl, res'.arg.id)) =>
                     (res'.err = Nil /\ tbl' = tbl \cup {res'.ent})]_vars

\* A Create refused for its email, with the table holding that email once.
C6_Witness ==
    /\ res.op = "Create"
    /\ res.err = ErrConstraint
    /\ res.arg.id = 0
    /\ Cardinality({r \in tbl : r.email = res.arg.email}) = 1

\* C7: Update is a full-record upsert.  After a successful Update of e the
\* table holds exactly one row with e's primary key, equal to e, and
\* FindByID(e.id), into whatever output record the caller passes, returns it.
C7_Upsert ==
    (res.op = "Update" /\ res.err = Nil) =>
        /\ {r \in tbl : r.id = res.ent.id} = {res.ent}
        /\ \A dest \in Dests :
              LET f == RepoFindByID(tbl, res.ent.id, dest)
              IN  f.err = Nil /\ f.ent = res.ent

\* C8: Close, Ping, HealthCheck and Stats on a manager that was never
\* successfully constructed return ErrNotConnected (Stats with no map) and
\* do not panic.
C8_NotConnected ==
    (res.op \in {"Close", "Ping", "HealthCheck", "Stats"} /\ res.arg \in {"nil", "zero"}) =>
        /\ res.err = ErrNotConnected
        /\ res.op = "Stats" => res.ent = NoMap

\* C9: after every successful New each pool parameter handed to the sql.DB is
\* the configured value where it was non-zero and the default (100, 10, one
\* hour, ten minutes) where it was zero, and the limits of a constructed
\* manager's sql.DB were set exactly once.
C9_PoolDefaults ==
    /\ (res.op = "New" /\ res.err = Nil) =>
          LET c == res.arg.config
              l == pool.limits
          IN  /\ l.MaxOpenConns = IF c.MaxOpenConns # 0 THEN c.MaxOpenConns ELSE 100
              /\ l.MaxIdleConns = IF c.MaxIdleConns # 0 THEN c.MaxIdleConns ELSE 10
              /\ l.ConnMaxLifetime = IF c.ConnMaxLifetime # 0 THEN c.ConnMaxLifetime ELSE 60
              /\ l.ConnMaxIdleTime = IF c.ConnMaxIdleTime # 0 THEN c.ConnMaxIdleTime ELSE 10
    /\ (mgr \in {"open", "closed"}) => pool.times = 1

\* A New with one limit set and the others left zero.
C9_Witness ==
    /\ res.op = "New"
    /\ res.err = Nil
    /\ res.arg.config = Config(25, 0, 30, 0)
    /\ pool.limits = Config(25, 10, 30, 10)

\* C10: FindWhere returns exactly the matching rows, once each, and no
\* error; with no matching row it returns the empty sequence.
C10_FindWhere ==
    (res.op = "FindWhere") =>
        /\ res.err = Nil
        /\ Elems(res.rows) = {r \in tbl : r.age = res.arg}
        /\ Len(res.rows) = Cardinality({r \in tbl : r.age = res.arg})

\* A filter matching some rows and not others.
C10_Witness ==
    /\ res.op = "FindWhere"
    /\ Len(res.rows) >= 2
    /\ Len(res.rows) < Cardinality(tbl)

\* The rows of a page when total rows are paged: min(pageSize, max(0, total -
\* (page-1)*pageSize)).
PageLen(total, page, pageSize) ==
    MinOf(pageSize.lo, MaxOf(0, total - (page.lo - 1) * pageSize.lo))

\* C11: a Repository call computes its result from one state of the table,
\* also while other callers Create and Delete between its statements: for
\* Paginate the total and the page come from the same table, so that
\* len(page) = min(pageSize, max(0, total - (page-1)*pageSize)) under every
\* interleaving (stated for pages whose offset does not leave the int range).
C11_OneRoundTrip ==
    (res.op = "Paginate" /\ res.arg.page.hi = 0) =>
        Len(res.rows) = PageLen(res.total, res.arg.page, res.arg.pageSize)

====
